---- MODULE Spec2Model ----
(***************************************************************************)
(* Model of meto_app.py: the weather table (SQLite, UNIQUE key, INSERT OR  *)
(* IGNORE), the /weather-report ingest handler, and the 48 hour read path  *)
(* behind /export/excel and /export/pdf.                                   *)
(*                                                                         *)
(* Three specifications share the operators below:                         *)
(*   Spec        concurrent /weather-report requests, one sqlite3          *)
(*               connection each, writers serialised by the database lock  *)
(*   SpecIngest  sequential /weather-report calls against a provider whose *)
(*               payload varies (missing keys, null values, ragged arrays) *)
(*   SpecExport  sequential /weather-report calls followed by exports at   *)
(*               clock readings around the 48 hour boundary                *)
(***************************************************************************)
EXTENDS Bags, FiniteSets, Integers, Sequences, TLC

VARIABLES weather, req, lock, upstream, call, view

vars == <<weather, req, lock, upstream, call, view>>

----------------------------------------------------------------------------
(* Bounds and value domains *)

\* longest hourly array / batch considered
MaxLen == 2

\* Python None (also what JSON null parses to, and an omitted Optional[float])
None == -1

\* hours (since 2024-01-01T00:00Z) for which the provider delivers observations
ObsHours == {1, 2}

\* JSON numbers the provider delivers
TempNumbers == {10, 20}

\* the two locations requested: they differ in latitude, one has latitude 0
Lats == {0, 47}
Lons == {8}

Writers == {1, 2}

Min(a, b) == IF a < b THEN a ELSE b

SeqsUpTo(S, n) == UNION {[1..k -> S] : k \in 0..n}

----------------------------------------------------------------------------
(* Timestamps as character strings (sequences of code points) *)

Digit(d) == 48 + d

Pad2(n) == <<Digit(n \div 10), Digit(n % 10)>>

\* "2024-01-DD" for an instant given in seconds since 2024-01-01T00:00:00Z
DatePart(sec) == <<50, 48, 50, 52, 45, 48, 49, 45>> \o Pad2(1 + (sec \div 86400))

\* "HH:MM"
ClockHM(sec) == Pad2((sec % 86400) \div 3600) \o <<58>> \o Pad2((sec % 3600) \div 60)

\* the provider's hourly time strings with timezone=UTC: "YYYY-MM-DDTHH:MM"
ProviderTime(sec) == DatePart(sec) \o <<84>> \o ClockHM(sec)

\* datetime.isoformat() of an aware UTC datetime with microsecond = 0:
\* "YYYY-MM-DDTHH:MM:SS+00:00"
IsoFormat(sec) ==
    DatePart(sec) \o <<84>> \o ClockHM(sec) \o <<58>> \o Pad2(sec % 60)
        \o <<43, 48, 48, 58, 48, 48>>

\* SQLite's comparison of two TEXT values (BINARY collation): memcmp over the
\* common length, then the shorter string is the smaller
StrLess(a, b) ==
    LET n == Min(Len(a), Len(b))
        diff == {i \in 1..n : a[i] # b[i]}
    IN  IF diff = {} THEN Len(a) < Len(b)
        ELSE LET i == CHOOSE j \in diff : \A k \in diff : j <= k
             IN  a[i] < b[i]

ObsTimes == {ProviderTime(3600 * h) : h \in ObsHours}

----------------------------------------------------------------------------
(* The weather table *)

Row(ts, t, h, la, lo) ==
    [timestamp |-> ts, temperature |-> t, humidity |-> h,
     latitude |-> la, longitude |-> lo]

Key(r) == <<r.timestamp, r.latitude, r.longitude>>

\* a table created without the UNIQUE constraint
ConflictsNoConstraint(tbl, row) == FALSE

\* UNIQUE(timestamp, latitude, longitude): does row collide with a stored row
Conflicts(tbl, row) == \E r \in BagToSet(tbl) : Key(r) = Key(row)

\* a plain append that never consults the key
InsertAlways(tbl, row) == tbl (+) SetToBag({row})

\* INSERT OR REPLACE: the colliding row is deleted and the new one stored
InsertOrReplace(tbl, row) ==
    LET kept == {r \in BagToSet(tbl) : Key(r) # Key(row)}
    IN  [r \in kept |-> tbl[r]] (+) SetToBag({row})

\* one INSERT OR IGNORE INTO weather ... VALUES (?, ?, ?, ?, ?)
InsertOrIgnore(tbl, row) ==
    IF Conflicts(tbl, row) THEN tbl ELSE tbl (+) SetToBag({row})

\* counting every bound row, ignored or not
ChangesEveryRow(tbl, row) == 1

\* what the statement adds to conn.total_changes
Changes(tbl, row) == IF Conflicts(tbl, row) THEN 0 ELSE 1

\* cur.executemany(...) from row i on, n changes so far on this connection
RECURSIVE ExecuteMany(_, _, _, _)
ExecuteMany(tbl, rows, i, n) ==
    IF i > Len(rows) THEN [tbl |-> tbl, total_changes |-> n]
    ELSE ExecuteMany(InsertOrIgnore(tbl, rows[i]), rows, i + 1,
                     n + Changes(tbl, rows[i]))

\* insert_weather_rows on a database no other connection is writing
InsertWeatherRows(tbl, rows) == ExecuteMany(tbl, rows, 1, 0)

----------------------------------------------------------------------------
(* fetch_last_48h *)

WindowHours == 48

\* since_iso for a clock reading now = [sec, us]: now - 48h with the
\* microseconds dropped, in isoformat
SinceIso(now) == IsoFormat(now.sec - WindowHours * 3600)

\* a WHERE clause that forgets the latitude
WhereLongitudeOnly(row, since_iso, lat, lon) ==
    IF lat = None \/ lon = None
    THEN ~StrLess(row.timestamp, since_iso)
    ELSE ~StrLess(row.timestamp, since_iso) /\ row.longitude = lon

\* the WHERE clause of whichever of the two SELECTs is executed
Where(row, since_iso, lat, lon) ==
    IF lat = None \/ lon = None
    THEN ~StrLess(row.timestamp, since_iso)
    ELSE ~StrLess(row.timestamp, since_iso)
         /\ row.latitude = lat /\ row.longitude = lon

Select(tbl, since_iso, lat, lon) ==
    LET hit == {r \in BagToSet(tbl) : Where(r, since_iso, lat, lon)}
    IN  [r \in hit |-> tbl[r]]

\* ORDER BY timestamp ASC: every listing of the selected rows in which no row
\* precedes one with a smaller timestamp (SQL leaves the order of ties open)
RECURSIVE OrderBy(_)
OrderBy(b) ==
    IF BagToSet(b) = {} THEN {<< >>}
    ELSE LET first == {r \in BagToSet(b) :
                          \A q \in BagToSet(b) : ~StrLess(q.timestamp, r.timestamp)}
         IN  UNION {{<<r>> \o s : s \in OrderBy(b (-) SetToBag({r}))} : r \in first}

\* the row lists fetch_last_48h(lat, lon) can return at clock reading now
FetchLast48h(tbl, now, lat, lon) == OrderBy(Select(tbl, SinceIso(now), lat, lon))

----------------------------------------------------------------------------
(* weather_report *)

Get(d, k, default) == IF k \in DOMAIN d THEN d[k] ELSE default

\* data.get("hourly") is None or an empty dict
HourlyFalsy(data) == "hourly" \notin DOMAIN data \/ DOMAIN data["hourly"] = {}

\* float(v) raises TypeError on None
FloatRaises(v) == v = None

\* float(v) of a JSON number
Float(v) == v

Length(times, temps, hums) == Min(Len(times), Min(Len(temps), Len(hums)))

\* a comprehension that starts at the second index
BuildRowsSkipFirst(times, temps, hums, lat, lon, length) ==
    [i \in 1..(length - 1) |->
        Row(times[i + 1], Float(temps[i + 1]), Float(hums[i + 1]), Float(lat), Float(lon))]

\* the list comprehension over range(length)
BuildRows(times, temps, hums, lat, lon, length) ==
    [i \in 1..length |->
        Row(times[i], Float(temps[i]), Float(hums[i]), Float(lat), Float(lon))]

\* weather_report up to the call of insert_weather_rows: the HTTP status it
\* is going to answer with and the rows it built
Prepare(lat, lon, status_code, data) ==
    IF status_code # 200
    THEN [status |-> 502, detail |-> "Open-Meteo API error", rows |-> << >>]
    ELSE IF HourlyFalsy(data)
    THEN [status |-> 502, detail |-> "missing 'hourly' key", rows |-> << >>]
    ELSE LET hourly == data["hourly"]
             times  == Get(hourly, "time", << >>)
             temps  == Get(hourly, "temperature_2m", << >>)
             hums   == Get(hourly, "relative_humidity_2m", << >>)
             length == Length(times, temps, hums)
         IN  IF \E i \in 1..length : FloatRaises(temps[i]) \/ FloatRaises(hums[i])
             THEN [status |-> 500, detail |-> "TypeError", rows |-> << >>]
             ELSE [status |-> 200, detail |-> "stored",
                   rows |-> BuildRows(times, temps, hums, lat, lon, length)]

\* a whole weather_report call that no other writer overlaps
WeatherReport(tbl, lat, lon, status_code, data) ==
    LET p == Prepare(lat, lon, status_code, data)
    IN  IF p.status # 200
        THEN [status |-> p.status, detail |-> p.detail, rows |-> p.rows,
              requested_records |-> 0, db_inserted_rows |-> 0, tbl |-> tbl]
        ELSE LET done == InsertWeatherRows(tbl, p.rows)
             IN  [status |-> 200, detail |-> p.detail, rows |-> p.rows,
                  requested_records |-> Len(p.rows),
                  db_inserted_rows |-> done.total_changes, tbl |-> done.tbl]

----------------------------------------------------------------------------
(* export_pdf *)

\* truth value of an Optional[float]: None and 0.0 are false
Truthy(x) == x # None /\ x # 0

\* the location line of the report
LocationLine(lat, lon) ==
    IF Truthy(lat) /\ Truthy(lon)
    THEN [kind |-> "pair", lat |-> lat, lon |-> lon]
    ELSE [kind |-> "All locations", lat |-> None, lon |-> None]

NoLine == [kind |-> "absent", lat |-> None, lon |-> None]

\* what export_pdf puts into the document for the fetched rows
PdfStory(rows, lat, lon) ==
    IF rows = << >>
    THEN [notice |-> "No data available for last 48 hours.", chart |-> FALSE,
          location |-> NoLine]
    ELSE [notice |-> "", chart |-> TRUE, location |-> LocationLine(lat, lon)]

----------------------------------------------------------------------------
(* State after import of the module: init_db() has created an empty table *)

Idle ==
    [pc |-> "idle", lat |-> None, lon |-> None, rows |-> << >>, i |-> 0,
     tbl |-> EmptyBag, total_changes |-> 0, status |-> 0,
     requested_records |-> 0, db_inserted_rows |-> 0]

NoPrev == [made |-> FALSE, requested_records |-> 0, db_inserted_rows |-> 0]

NoCall ==
    [made |-> FALSE, lat |-> None, lon |-> None, status |-> 0, detail |-> "",
     rows |-> << >>, requested_records |-> 0, db_inserted_rows |-> 0,
     before |-> EmptyBag, prev |-> NoPrev]

NoView ==
    [made |-> FALSE, op |-> "", lat |-> None, lon |-> None,
     now |-> [sec |-> 0, us |-> 0], rows |-> << >>, notice |-> "",
     chart |-> FALSE, location |-> NoLine]

Payload(times, temps, hums) ==
    [k \in {"hourly"} |->
        [time |-> times, temperature_2m |-> temps, relative_humidity_2m |-> hums]]

Init ==
    /\ weather = EmptyBag
    /\ req = [w \in Writers |-> Idle]
    /\ lock = None
    /\ upstream = Payload(<< >>, << >>, << >>)
    /\ call = NoCall
    /\ view = NoView

\* HTTP status codes fetch_open_meteo can see
StatusCodes == {200, 503}

----------------------------------------------------------------------------
(* Spec: concurrent /weather-report requests.  Each request runs in its    *)
(* own thread with its own connection; the first INSERT of executemany    *)
(* opens the implicit transaction and takes the database write lock, which *)
(* conn.commit() releases.                                                 *)

\* well-formed payloads: equally long arrays, times possibly repeated
WellFormedPayloads ==
    UNION {{Payload(ts, tp, [i \in 1..Len(ts) |-> 50]) :
               tp \in [1..Len(ts) -> TempNumbers]} :
           ts \in SeqsUpTo(ObsTimes, MaxLen)}

\* the concurrent requests all ask for the same place
ConcLats == {47}

\* lines 113-127: fetch, shape check, row construction
Request(w) ==
    /\ req[w].pc = "idle"
    /\ \E lat \in ConcLats, lon \in Lons, status_code \in StatusCodes,
          data \in WellFormedPayloads :
          LET p == Prepare(lat, lon, status_code, data)
          IN  req' = [req EXCEPT ![w] =
                        IF p.status = 200
                        THEN [Idle EXCEPT !.pc = "insert", !.lat = lat, !.lon = lon,
                                          !.rows = p.rows, !.i = 1]
                        ELSE [Idle EXCEPT !.pc = "done", !.lat = lat, !.lon = lon,
                                          !.status = p.status]]
    /\ UNCHANGED <<weather, lock, upstream, call, view>>

\* one statement of executemany inside the connection's transaction
ExecuteRow(w) ==
    /\ req[w].pc = "insert"
    /\ req[w].i <= Len(req[w].rows)
    /\ lock \in {None, w}
    /\ LET t   == IF lock = w THEN req[w].tbl ELSE weather
           row == req[w].rows[req[w].i]
       IN  req' = [req EXCEPT ![w].tbl = InsertOrIgnore(t, row),
                              ![w].total_changes = @ + Changes(t, row),
                              ![w].i = @ + 1]
    /\ lock' = w
    /\ UNCHANGED <<weather, upstream, call, view>>

\* the write lock is held by another connection until the busy timeout
\* expires: sqlite3.OperationalError, answered with status 500
Busy(w) ==
    /\ req[w].pc = "insert"
    /\ req[w].i <= Len(req[w].rows)
    /\ lock \notin {None, w}
    /\ req' = [req EXCEPT ![w] = [Idle EXCEPT !.pc = "done", !.lat = req[w].lat,
                                              !.lon = req[w].lon, !.status = 500]]
    /\ UNCHANGED <<weather, lock, upstream, call, view>>

\* conn.commit(), total_changes, close, and the response dictionary
Commit(w) ==
    /\ req[w].pc = "insert"
    /\ req[w].i > Len(req[w].rows)
    /\ weather' = IF lock = w THEN req[w].tbl ELSE weather
    /\ lock' = IF lock = w THEN None ELSE lock
    /\ req' = [req EXCEPT ![w] =
                  [Idle EXCEPT !.pc = "done", !.lat = req[w].lat, !.lon = req[w].lon,
                               !.status = 200, !.rows = req[w].rows,
                               !.requested_records = Len(req[w].rows),
                               !.db_inserted_rows = req[w].total_changes]]
    /\ UNCHANGED <<upstream, call, view>>

\* the response leaves the server
Respond(w) ==
    /\ req[w].pc = "done"
    /\ req' = [req EXCEPT ![w] = Idle]
    /\ UNCHANGED <<weather, lock, upstream, call, view>>

Next ==
    \/ \E w \in Writers : Request(w)
    \/ \E w \in Writers : ExecuteRow(w)
    \/ \E w \in Writers : Busy(w)
    \/ \E w \in Writers : Commit(w)
    \/ \E w \in Writers : Respond(w)

Spec == Init /\ [][Next]_vars

----------------------------------------------------------------------------
(* SpecIngest: /weather-report called again and again, one call at a time, *)
(* against a provider whose payload changes between calls.  call is the    *)
(* outcome of the latest call made for the present payload.                *)

HourlyKeys == {"time", "temperature_2m", "relative_humidity_2m"}

\* what the provider can put into each array: times, and numbers or null
ElementsOf(k) ==
    IF k = "time" THEN ObsTimes
    ELSE IF k = "temperature_2m" THEN {10, None}
    ELSE {50}

HasHourly == "hourly" \in DOMAIN upstream

\* the provider's payload gains one element in one of its arrays
ProviderAppend ==
    /\ HasHourly
    /\ \E k \in DOMAIN upstream["hourly"] :
          /\ Len(upstream["hourly"][k]) < MaxLen
          /\ \E v \in ElementsOf(k) :
                upstream' = [upstream EXCEPT !["hourly"][k] = Append(@, v)]
    /\ call' = NoCall
    /\ UNCHANGED <<weather, req, lock, view>>

\* the provider's payload loses one of the hourly arrays
ProviderOmit ==
    /\ HasHourly
    /\ \E k \in DOMAIN upstream["hourly"] :
          upstream' = [j \in {"hourly"} |->
                         [h \in DOMAIN upstream["hourly"] \ {k} |-> upstream["hourly"][h]]]
    /\ call' = NoCall
    /\ UNCHANGED <<weather, req, lock, view>>

\* the provider's payload has no "hourly" member at all
ProviderOmitHourly ==
    /\ HasHourly
    /\ upstream' = [j \in {} |-> << >>]
    /\ call' = NoCall
    /\ UNCHANGED <<weather, req, lock, view>>

\* the provider starts over with three empty arrays
ProviderReset ==
    /\ upstream # Payload(<< >>, << >>, << >>)
    /\ upstream' = Payload(<< >>, << >>, << >>)
    /\ call' = NoCall
    /\ UNCHANGED <<weather, req, lock, view>>

\* the record kept of a call: arguments, answer, and the table it found
CallRecord(lat, lon, r, before, prev) ==
    [made |-> TRUE, lat |-> lat, lon |-> lon, status |-> r.status,
     detail |-> r.detail, rows |-> r.rows,
     requested_records |-> r.requested_records,
     db_inserted_rows |-> r.db_inserted_rows, before |-> before, prev |-> prev]

\* GET /weather-report?lat=..&lon=.. answered from the present payload
Ingest ==
    \E lat \in Lats, lon \in Lons, status_code \in StatusCodes :
        LET r == WeatherReport(weather, lat, lon, status_code, upstream)
            prev == IF call.made /\ call.status = 200 /\ r.status = 200
                       /\ call.lat = lat /\ call.lon = lon
                    THEN [made |-> TRUE,
                          requested_records |-> call.requested_records,
                          db_inserted_rows |-> call.db_inserted_rows]
                    ELSE NoPrev
        IN  /\ weather' = r.tbl
            /\ call' = CallRecord(lat, lon, r, weather, prev)
            /\ UNCHANGED <<req, lock, upstream, view>>

NextIngest ==
    \/ ProviderAppend
    \/ ProviderOmit
    \/ ProviderOmitHourly
    \/ ProviderReset
    \/ Ingest

SpecIngest == Init /\ [][NextIngest]_vars

----------------------------------------------------------------------------
(* SpecExport: /weather-report calls with well-formed payloads, then       *)
(* /export/excel and /export/pdf at clock readings around the instant at   *)
(* which the first observed hour is exactly 48 hours old.                  *)

ExportPayloads ==
    {Payload(ts, [i \in 1..Len(ts) |-> 10], [i \in 1..Len(ts) |-> 50]) :
        ts \in SeqsUpTo(ObsTimes, MaxLen)}

\* clock readings: one second before, at, and one second after the instant
\* at which hour 1 leaves the window, with and without microseconds
Nows ==
    {[sec |-> (WindowHours + 1) * 3600 + d, us |-> u] :
        d \in {-1, 0, 1}, u \in {0, 250000}}

\* the lat and lon query parameters of the exports, each optional
OptLats == Lats \cup {None}
OptLons == Lons \cup {None}

IngestBatch ==
    \E lat \in Lats, lon \in Lons, data \in ExportPayloads :
        LET r == WeatherReport(weather, lat, lon, 200, data)
        IN  /\ weather' = r.tbl
            /\ call' = CallRecord(lat, lon, r, weather, NoPrev)
            /\ view' = NoView
            /\ UNCHANGED <<req, lock, upstream>>

ExportExcel ==
    \E lat \in OptLats, lon \in OptLons, now \in Nows :
        \E rows \in FetchLast48h(weather, now, lat, lon) :
            /\ view' = [made |-> TRUE, op |-> "excel", lat |-> lat, lon |-> lon,
                        now |-> now, rows |-> rows, notice |-> "",
                        chart |-> FALSE, location |-> NoLine]
            /\ call' = NoCall
            /\ UNCHANGED <<weather, req, lock, upstream>>

ExportPdf ==
    \E lat \in OptLats, lon \in OptLons, now \in Nows :
        \E rows \in FetchLast48h(weather, now, lat, lon) :
            LET story == PdfStory(rows, lat, lon)
            IN  /\ view' = [made |-> TRUE, op |-> "pdf", lat |-> lat, lon |-> lon,
                            now |-> now, rows |-> rows, notice |-> story.notice,
                            chart |-> story.chart, location |-> story.location]
                /\ call' = NoCall
                /\ UNCHANGED <<weather, req, lock, upstream>>

NextExport ==
    \/ IngestBatch
    \/ ExportExcel
    \/ ExportPdf

SpecExport == Init /\ [][NextExport]_vars

----------------------------------------------------------------------------
(* Properties *)

Rows(tbl) == BagToSet(tbl)

Keys(tbl) == {Key(r) : r \in Rows(tbl)}

UniqueKeys(tbl) ==
    \A r \in Rows(tbl) :
        /\ CopiesIn(r, tbl) = 1
        /\ \A q \in Rows(tbl) : Key(q) = Key(r) => q = r

\* C1: in every reachable state, also while requests of several writers
\* overlap, no two rows of the weather table (committed, or as seen inside a
\* writer's open transaction) have the same (timestamp, latitude, longitude).
C1_KeyUniqueness ==
    /\ UniqueKeys(weather)
    /\ \A w \in Writers : UniqueKeys(req[w].tbl)

\* two overlapping requests that delivered a common key were both answered
\* with 200 and the key is stored
C1_Witness ==
    \E w1, w2 \in Writers :
        /\ w1 # w2
        /\ req[w1].pc = "done" /\ req[w1].status = 200
        /\ req[w2].pc = "done" /\ req[w2].status = 200
        /\ \E i \in DOMAIN req[w1].rows, j \in DOMAIN req[w2].rows :
              /\ Key(req[w1].rows[i]) = Key(req[w2].rows[j])
              /\ Key(req[w1].rows[i]) \in Keys(weather)

\* C2: a stored row is never removed and never changed: every step leaves
\* each stored row in the table, and leaves it the only row with its key,
\* also when a later request delivers that key with another temperature.
C2_ExistingRowWins ==
    [][\A r \in Rows(weather) :
          /\ r \in Rows(weather')
          /\ \A q \in Rows(weather') : Key(q) = Key(r) => q = r]_vars

\* a request answered with 200 inserted nothing, and one of its rows carries
\* the key of a stored row with a different temperature
C2_Witness ==
    \E w \in Writers :
        /\ req[w].pc = "done" /\ req[w].status = 200
        /\ req[w].db_inserted_rows = 0
        /\ \E i \in DOMAIN req[w].rows : \E r \in Rows(weather) :
              /\ Key(r) = Key(req[w].rows[i])
              /\ r.temperature # req[w].rows[i].temperature

\* C4: when a request commits, the count it reports as db_inserted_rows is
\* the number of rows the table grew by, which is the number of distinct keys
\* of its batch that were not stored before, and is at most requested_records.
C4_CountIsGrowth ==
    [][\A w \in Writers :
          (req[w].pc = "insert" /\ req'[w].pc = "done" /\ req'[w].status = 200) =>
              /\ req'[w].db_inserted_rows
                    = BagCardinality(weather') - BagCardinality(weather)
              /\ req'[w].db_inserted_rows
                    = Cardinality({Key(req[w].rows[i]) : i \in DOMAIN req[w].rows}
                                      \ Keys(weather))
              /\ req'[w].db_inserted_rows <= req'[w].requested_records]_vars

\* a committed batch of which some rows were counted and some were not
C4_Witness ==
    \E w \in Writers :
        /\ req[w].pc = "done" /\ req[w].status = 200
        /\ 0 < req[w].db_inserted_rows
        /\ req[w].db_inserted_rows < req[w].requested_records

\* C3: when /weather-report is called twice in succession for the same
\* (lat, lon) while the provider returns the same payload, and both calls
\* return a result, the second reports db_inserted_rows = 0 and the same
\* requested_records as the first.
C3_DedupIdempotence ==
    (call.made /\ call.prev.made) =>
        /\ call.db_inserted_rows = 0
        /\ call.requested_records = call.prev.requested_records

\* the second of two such calls, the first of which inserted rows
C3_Witness ==
    /\ call.made /\ call.prev.made
    /\ call.prev.db_inserted_rows > 0
    /\ call.requested_records > 0

\* the hourly arrays of the present payload
Hourly == upstream["hourly"]
ThreeArrays == HasHourly /\ DOMAIN Hourly = HourlyKeys
MinLength ==
    Length(Hourly["time"], Hourly["temperature_2m"], Hourly["relative_humidity_2m"])
NullAt(i) ==
    Hourly["temperature_2m"][i] = None \/ Hourly["relative_humidity_2m"][i] = None
ProviderAnswered == call.made /\ call.detail # "Open-Meteo API error"

\* C9: for arrays of lengths a, b, c a call that returns a result reports
\* requested_records = min(a, b, c) and has built exactly the records of
\* indices 0..min-1, zipped position by position and tagged with the requested
\* (lat, lon); a call fails only on a null among those indices, never because
\* the lengths differ.
C9_Truncation ==
    (ProviderAnswered /\ ThreeArrays) =>
        IF \E i \in 1..MinLength : NullAt(i)
        THEN call.status = 500
        ELSE /\ call.status = 200
             /\ call.requested_records = MinLength
             /\ Len(call.rows) = MinLength
             /\ \A i \in 1..MinLength :
                   call.rows[i] = Row(Hourly["time"][i], Hourly["temperature_2m"][i],
                                      Hourly["relative_humidity_2m"][i],
                                      call.lat, call.lon)

\* arrays of three different lengths were truncated to the shortest
C9_Witness ==
    /\ ProviderAnswered /\ ThreeArrays
    /\ call.status = 200
    /\ call.requested_records > 0
    /\ Len(Hourly["time"]) > MinLength
    /\ Len(Hourly["temperature_2m"]) # Len(Hourly["time"])

\* C5: when exactly one record of the batch is malformed (a null temperature
\* or humidity at one index), the call succeeds, every other record of the
\* batch is stored, and the malformed record is not.
C5_BadRecordSkipped ==
    (ProviderAnswered /\ ThreeArrays
        /\ Cardinality({i \in 1..MinLength : NullAt(i)}) = 1) =>
        /\ call.status = 200
        /\ \A i \in 1..MinLength :
              ~NullAt(i) => <<Hourly["time"][i], call.lat, call.lon>> \in Keys(weather)
        /\ \A r \in Rows(weather) : r.temperature # None /\ r.humidity # None

\* C6: when the payload has an "hourly" member that lacks one of the three
\* arrays, the call fails with the malformed-response error (502) and the
\* table is unchanged.
C6_MissingArrayFails ==
    (ProviderAnswered /\ HasHourly /\ DOMAIN Hourly # HourlyKeys) =>
        /\ call.status = 502
        /\ weather = call.before

\* the instant (seconds since 2024-01-01T00:00:00Z) a stored time string names
Instant(ts) == CHOOSE sec \in {3600 * h : h \in ObsHours} : ProviderTime(sec) = ts

\* the bound of the window: now - 48h in whole seconds
Since(now) == now.sec - WindowHours * 3600

RowsOf(seq) == {seq[i] : i \in DOMAIN seq}

\* C7: an export without location returns exactly the stored observations
\* whose instant is at or after now - 48h (whole seconds), each once, in
\* ascending order of time.
C7_WindowCorrectness ==
    (view.made /\ view.lat = None /\ view.lon = None) =>
        /\ RowsOf(view.rows)
              = {r \in Rows(weather) : Instant(r.timestamp) >= Since(view.now)}
        /\ Len(view.rows) = Cardinality(RowsOf(view.rows))
        /\ \A i, j \in DOMAIN view.rows :
              i < j => Instant(view.rows[i].timestamp) <= Instant(view.rows[j].timestamp)

C10_LocationLine ==
    (view.made /\ view.op = "pdf" /\ view.rows # << >>) =>
        IF view.lat # None /\ view.lon # None
        THEN view.location = [kind |-> "pair", lat |-> view.lat, lon |-> view.lon]
        ELSE view.location.kind = "All locations"

====
